---- MODULE Spec2Model ----
(***************************************************************************)
(* Model of the stream traders (radio_transcript.py; twitter.py and        *)
(* youtube.py carry the same place_trade / create_and_submit_order /       *)
(* matching loop and differ in the read loop).                             *)
(*                                                                         *)
(* Text is a sequence of one-character strings.  The processing thread     *)
(* walks self.markets once per finalized utterance; every detection starts *)
(* a new thread that runs place_trade.  The shared state is                *)
(* executed_markets and detection_history.                                 *)
(*                                                                         *)
(* Spec is the detection and dispatch path, with the recognizer reporting  *)
(* results at any time.  SpecPipe is the audio pipeline in front of it: the*)
(* read loop, the bounded queue and the processing loop up to the          *)
(* recognizer, with sizes in bytes.                                        *)
(* SpecStop is Spec with the shutdown: the stop and the exit of the        *)
(* process, which ends every thread.  SpecBurst is the dispatch path with  *)
(* room for MaxBurst threads, the same phrase recognized again and again   *)
(* while no call of the backend returns.                                   *)
(* SpecBoot is Spec behind the startup: the loading of the configuration,  *)
(* the construction of the trader and the start of its threads.  SpecRetry *)
(* is Spec with a backend that takes an order and loses the response.      *)
(* SpecPipeFair is SpecPipe with its threads scheduled fairly.             *)
(***************************************************************************)
EXTENDS Naturals, Sequences, FiniteSets

(* ---- bounds of the model ---- *)
MaxThreads == 2
MaxDetections == 2
MaxChunks == 12
MaxBurst == 9

(* ---- program constants ---- *)
MaxTries == 5

(* audio_queue = queue.Queue(maxsize=10) *)
QueueMax == 10

(* radio: buffer_size, the size asked of iter_content, in bytes *)
BufferSize == 4096

(* radio: bytes_per_chunk = int(128 * 1024 / 8 * chunk_size), chunk_size 1 *)
BytesPerChunk == 16384

(* twitter, youtube: chunk_size = int(sample_rate * chunk_size), 16000 * 1 *)
ChunkSize == 16000

(* sizes of the pieces iter_content yields: a full piece or a short one *)
ReadSizes == {BufferSize, BufferSize \div 2}

(* sizes of a last, short read of the ffmpeg pipe before its end *)
TailSizes == {ChunkSize \div 2}

(* speech.save_detections, default of get_setting *)
SaveDetections == TRUE

(* ---- text ---- *)
LowerChar(c) == IF c = "A" THEN "a" ELSE IF c = "B" THEN "b" ELSE c

Lower(s) == [i \in 1..Len(s) |-> LowerChar(s[i])]

(* Python's  kw in text  for two strings *)
Contains(kw, text) ==
    \E i \in 0..Len(text) :
        /\ i + Len(kw) <= Len(text)
        /\ SubSeq(text, i + 1, i + Len(kw)) = kw

(* a keyword test by containment where membership is meant *)
InListMutant(text, keywords) == \E i \in 1..Len(keywords) : Contains(keywords[i], text)

(* Python's  text in keywords  for a list of strings *)
InList(text, keywords) == \E i \in 1..Len(keywords) : keywords[i] = text

(* ---- configuration ---- *)
(* config/markets.yaml, in the order of the file; m3 is disabled *)
ConfigMarkets ==
    << [market_id |-> "m1", keywords |-> << <<"a">>, <<"a", "b">> >>,
        trigger_type |-> "any", disabled |-> FALSE],
       [market_id |-> "m3", keywords |-> << <<"b">> >>,
        trigger_type |-> "any", disabled |-> TRUE],
       [market_id |-> "m2", keywords |-> << <<"a", "b">> >>,
        trigger_type |-> "exact", disabled |-> FALSE] >>

RECURSIVE Enabled(_)
(* the markets of a list that are not disabled, in the same order *)
Enabled(all) ==
    IF all = <<>> THEN <<>>
    ELSE IF Head(all).disabled THEN Enabled(Tail(all))
    ELSE <<Head(all)>> \o Enabled(Tail(all))

(* a loader that keeps every market of the file *)
GetEnabledMarketsMutant(all) == all

(* config.get_enabled_markets() *)
GetEnabledMarkets(all) == Enabled(all)

(* self.markets: the enabled markets in configured (dict insertion) order *)
Markets == GetEnabledMarkets(ConfigMarkets)

NumMarkets == Len(Markets)

MarketIds == {Markets[i].market_id : i \in 1..NumMarkets}

(* results the recognizer may report in result['text'] *)
Results == { <<>>, <<" ">>, <<"A", "b">>, <<"a", "b", " ">>,
             <<"a", "b", " ", "b">> }

NoText == <<>>

VARIABLES
    prevent_duplicate_trades,   \* trading.prevent_duplicate_trades
    exact_matching,             \* speech.exact_matching
    executed_markets,           \* self.executed_markets
    detection_history,          \* self.detection_history
    proc_pc,                    \* processing thread: "get" or "loop"
    result,                     \* result['text'] of the recognizer
    text,                       \* the utterance being matched
    idx,                        \* position of the loop over self.markets
    thr,                        \* the place_trade threads
    kind,                       \* which trader runs: "radio" or "twitter"
    auto_restart,               \* app.auto_restart
    running,                    \* self.running (radio)
    src,                        \* the source: "open", "eof", "terminated" or "failed"
    prod_pc,                    \* read loop: "read", "put" or "ended"
    bytes_collected,            \* bytes in chunk_buffer (radio)
    audio_data,                 \* size of the chunk the read loop holds
    audio_queue,                \* self.audio_queue, as chunk numbers
    n_put,                      \* chunks enqueued so far
    bytes_fed,                  \* bytes read from the current stream
    n_emitted,                  \* chunks cut from the current stream
    cons_pc,                    \* processing loop: "top", "get" or "exited"
    n_got,                      \* chunks dequeued so far
    last_handed,                \* number of the last chunk given to AcceptWaveform
    boot_pc,                    \* main: "new", "ready", "started" or "fatal"
    boot_in,                    \* what each step of the startup met
    lost                        \* per thread: orders the backend took whose response was lost

pipeVars == <<kind, auto_restart, running, src, prod_pc, bytes_collected,
              audio_data, audio_queue, n_put, bytes_fed, n_emitted, cons_pc,
              n_got, last_handed>>

tradeVars == <<prevent_duplicate_trades, exact_matching, executed_markets,
               detection_history, proc_pc, result, text, idx, thr>>

bootVars == <<boot_pc, boot_in, lost>>

vars == <<prevent_duplicate_trades, exact_matching, executed_markets,
          detection_history, proc_pc, result, text, idx, thr, kind,
          auto_restart, running, src, prod_pc, bytes_collected, audio_data,
          audio_queue, n_put, bytes_fed, n_emitted, cons_pc, n_got,
          last_handed, boot_pc, boot_in, lost>>

Threads == 1..MaxThreads

NoThread ==
    [pc |-> "none", market_id |-> "none", detected_keyword |-> NoText,
     tries |-> 0, resp |-> "none", status |-> "none", reason |-> "none",
     order_response |-> "none", saved |-> FALSE]

(* the startup met no failure: the order client was created, the speech
   model loaded, the source URL is known and markets.yaml was read *)
BootOk == [client |-> TRUE, model |-> TRUE, url |-> TRUE, markets |-> "loaded"]

(* main has built the trader from a readable configuration and start has
   started the threads; no response of the backend has been lost *)
InitStarted ==
    /\ boot_pc = "started"
    /\ boot_in = BootOk
    /\ lost = [t \in Threads |-> 0]

(* the pipeline right after construction *)
InitPipeline ==
    /\ running = TRUE
    /\ src = "open"
    /\ prod_pc = "read"
    /\ bytes_collected = 0
    /\ audio_data = 0
    /\ audio_queue = <<>>
    /\ n_put = 0
    /\ bytes_fed = 0
    /\ n_emitted = 0
    /\ cons_pc = "top"
    /\ n_got = 0
    /\ last_handed = 0

Init ==
    /\ prevent_duplicate_trades \in BOOLEAN
    /\ exact_matching \in BOOLEAN
    /\ executed_markets = {}
    /\ detection_history = <<>>
    /\ proc_pc = "get"
    /\ result = NoText
    /\ text = NoText
    /\ idx = 1
    /\ thr = [t \in Threads |-> NoThread]
    /\ kind = "radio"
    /\ auto_restart = TRUE
    /\ InitPipeline
    /\ InitStarted

(* ---- matching ---- *)
(* a matcher without the global override: every trigger keeps its own mode *)
EffectiveTypeMutant(m) == m.trigger_type

(* trigger_type of the market, 'exact' for all when speech.exact_matching *)
EffectiveType(m) == IF exact_matching THEN "exact" ELSE m.trigger_type

(* a matcher that keeps looking after a hit and records the last keyword
   contained in the text *)
FirstContainedMutant(keywords, txt) ==
    IF \E i \in 1..Len(keywords) : Contains(keywords[i], txt)
    THEN CHOOSE i \in 1..Len(keywords) :
            /\ Contains(keywords[i], txt)
            /\ \A j \in (i + 1)..Len(keywords) : ~Contains(keywords[j], txt)
    ELSE 0

(* index of the first keyword contained in the text, 0 when there is none *)
FirstContained(keywords, txt) ==
    IF \E i \in 1..Len(keywords) : Contains(keywords[i], txt)
    THEN CHOOSE i \in 1..Len(keywords) :
            /\ Contains(keywords[i], txt)
            /\ \A j \in 1..(i - 1) : ~Contains(keywords[j], txt)
    ELSE 0

Detected(m, txt) ==
    IF EffectiveType(m) = "exact" THEN InList(txt, m.keywords)
    ELSE IF EffectiveType(m) = "any" THEN FirstContained(m.keywords, txt) # 0
    ELSE FALSE

DetectedKeyword(m, txt) ==
    IF EffectiveType(m) = "exact" THEN txt
    ELSE m.keywords[FirstContained(m.keywords, txt)]

(* a matcher that never skips an executed market *)
SkipsExecutedMutant(m) == FALSE

(* the test at the head of the loop over the markets *)
SkipsExecuted(m) == m.market_id \in executed_markets /\ prevent_duplicate_trades

(* ---- processing thread ---- *)
FreeThreads == {t \in Threads : thr[t].pc = "none"}

NextThread == CHOOSE t \in FreeThreads : \A u \in FreeThreads : t <= u

Advance ==
    IF idx = NumMarkets
    THEN /\ proc_pc' = "get" /\ idx' = 1 /\ text' = NoText /\ result' = NoText
    ELSE /\ proc_pc' = "loop" /\ idx' = idx + 1 /\ text' = text /\ result' = result

(* AcceptWaveform reported a final result *)
Recognize(raw) ==
    /\ proc_pc = "get"
    /\ IF Lower(raw) # <<>>
       THEN /\ proc_pc' = "loop" /\ result' = raw /\ text' = Lower(raw) /\ idx' = 1
       ELSE UNCHANGED <<proc_pc, result, text, idx>>
    /\ UNCHANGED <<prevent_duplicate_trades, exact_matching, executed_markets,
                   detection_history, thr>>
    /\ UNCHANGED pipeVars
    /\ UNCHANGED bootVars

(* one iteration of the loop: the market is already executed *)
SkipMarket ==
    /\ proc_pc = "loop"
    /\ SkipsExecuted(Markets[idx])
    /\ Advance
    /\ UNCHANGED <<prevent_duplicate_trades, exact_matching, executed_markets,
                   detection_history, thr>>
    /\ UNCHANGED pipeVars
    /\ UNCHANGED bootVars

(* one iteration of the loop: no keyword matched *)
NoMatch ==
    /\ proc_pc = "loop"
    /\ ~SkipsExecuted(Markets[idx])
    /\ ~Detected(Markets[idx], text)
    /\ Advance
    /\ UNCHANGED <<prevent_duplicate_trades, exact_matching, executed_markets,
                   detection_history, thr>>
    /\ UNCHANGED pipeVars
    /\ UNCHANGED bootVars

DetectionInfo(m, txt) ==
    [market_id |-> m.market_id, detected_keyword |-> DetectedKeyword(m, txt),
     full_text |-> txt]

(* a loop that starts the dispatch without recording the detection *)
DetectUnrecordedMutant ==
    /\ proc_pc = "loop"
    /\ ~SkipsExecuted(Markets[idx])
    /\ Detected(Markets[idx], text)
    /\ Len(detection_history) < MaxDetections
    /\ FreeThreads # {}
    /\ UNCHANGED detection_history
    /\ thr' = [thr EXCEPT ![NextThread] =
                 [NoThread EXCEPT !.pc = "start",
                                  !.market_id = Markets[idx].market_id,
                                  !.detected_keyword = DetectedKeyword(Markets[idx], text),
                                  !.status = "pending"]]
    /\ Advance
    /\ UNCHANGED <<prevent_duplicate_trades, exact_matching, executed_markets>>
    /\ UNCHANGED pipeVars
    /\ UNCHANGED bootVars

(* a loop that calls place_trade itself: the iteration ends in the call of
   the backend and the loop stays on the market until the call is over *)
DetectMutant ==
    /\ proc_pc = "loop"
    /\ ~SkipsExecuted(Markets[idx])
    /\ Detected(Markets[idx], text)
    /\ Len(detection_history) < MaxDetections
    /\ FreeThreads # {}
    /\ detection_history' = Append(detection_history, DetectionInfo(Markets[idx], text))
    /\ thr' = [thr EXCEPT ![NextThread] =
                 [NoThread EXCEPT !.pc = "calling",
                                  !.market_id = Markets[idx].market_id,
                                  !.detected_keyword = DetectedKeyword(Markets[idx], text),
                                  !.tries = 1,
                                  !.status = "pending"]]
    /\ UNCHANGED <<proc_pc, result, text, idx>>
    /\ UNCHANGED <<prevent_duplicate_trades, exact_matching, executed_markets>>
    /\ UNCHANGED pipeVars
    /\ UNCHANGED bootVars

(* one iteration of the loop: a keyword matched, the detection is recorded
   and saved, and a thread is started on place_trade *)
Detect ==
    /\ proc_pc = "loop"
    /\ ~SkipsExecuted(Markets[idx])
    /\ Detected(Markets[idx], text)
    /\ Len(detection_history) < MaxDetections
    /\ FreeThreads # {}
    /\ detection_history' = Append(detection_history, DetectionInfo(Markets[idx], text))
    /\ thr' = [thr EXCEPT ![NextThread] =
                 [NoThread EXCEPT !.pc = "start",
                                  !.market_id = Markets[idx].market_id,
                                  !.detected_keyword = DetectedKeyword(Markets[idx], text),
                                  !.status = "pending"]]
    /\ Advance
    /\ UNCHANGED <<prevent_duplicate_trades, exact_matching, executed_markets>>
    /\ UNCHANGED pipeVars
    /\ UNCHANGED bootVars

(* one iteration of the loop: a keyword matched, the detection is recorded,
   writing the detection file (or copying the audio) raises: the except
   clause around the conversion block ends the loop over the markets *)
DetectSaveRaises ==
    /\ proc_pc = "loop"
    /\ SaveDetections
    /\ ~SkipsExecuted(Markets[idx])
    /\ Detected(Markets[idx], text)
    /\ Len(detection_history) < MaxDetections
    /\ detection_history' = Append(detection_history, DetectionInfo(Markets[idx], text))
    /\ proc_pc' = "get" /\ idx' = 1 /\ text' = NoText /\ result' = NoText
    /\ UNCHANGED <<prevent_duplicate_trades, exact_matching, executed_markets, thr>>
    /\ UNCHANGED pipeVars
    /\ UNCHANGED bootVars

(* ---- place_trade ---- *)
(* a place_trade without the duplicate check *)
AlreadyExecutedMutant(t) == FALSE

(* the condition of the duplicate check *)
AlreadyExecuted(t) ==
    prevent_duplicate_trades /\ thr[t].market_id \in executed_markets

(* the duplicate check at the head of place_trade *)
CheckExecuted(t) ==
    /\ thr[t].pc = "start"
    /\ IF AlreadyExecuted(t)
       THEN thr' = [thr EXCEPT ![t].pc = "done", ![t].status = "skipped",
                               ![t].reason = "already_executed"]
       ELSE thr' = [thr EXCEPT ![t].pc = "submit"]
    /\ UNCHANGED <<prevent_duplicate_trades, exact_matching, executed_markets,
                   detection_history, proc_pc, result, text, idx>>
    /\ UNCHANGED pipeVars
    /\ UNCHANGED bootVars

(* create_and_submit_order: one try of the decorated function starts *)
BeginCall(t) ==
    /\ thr[t].pc = "submit"
    /\ thr' = [thr EXCEPT ![t].pc = "calling", ![t].tries = @ + 1]
    /\ UNCHANGED <<prevent_duplicate_trades, exact_matching, executed_markets,
                   detection_history, proc_pc, result, text, idx>>
    /\ UNCHANGED pipeVars
    /\ UNCHANGED bootVars

(* backoff.on_exception(max_tries=5): the exception is re-raised once the
   number of tries reaches max_tries *)
GiveUp(t) == thr[t].tries >= MaxTries

(* the try raised: either backoff waits before the next try, or the
   exception leaves create_and_submit_order (and with it the count of tries
   kept by the decorator) and place_trade's except clause sets the status
   to error and writes the error file *)
CallRaises(t, written) ==
    /\ thr[t].pc = "calling"
    /\ IF GiveUp(t)
       THEN thr' = [thr EXCEPT ![t].pc = "done", ![t].tries = 0,
                               ![t].status = "error", ![t].saved = written]
       ELSE /\ written = FALSE
            /\ thr' = [thr EXCEPT ![t].pc = "submit"]
    /\ UNCHANGED <<prevent_duplicate_trades, exact_matching, executed_markets,
                   detection_history, proc_pc, result, text, idx>>
    /\ UNCHANGED pipeVars
    /\ UNCHANGED bootVars

Truthy(resp) == resp = "ok"

(* the try returned a response, which ends the retry loop (and its count
   of tries) whatever its value: place_trade marks the market executed on a
   truthy response and sets the status; the trade file is written next *)
CallReturns(t, resp) ==
    /\ thr[t].pc = "calling"
    /\ IF Truthy(resp)
       THEN /\ executed_markets' = executed_markets \cup {thr[t].market_id}
            /\ thr' = [thr EXCEPT ![t].pc = "save", ![t].tries = 0,
                                  ![t].resp = resp,
                                  ![t].status = "success",
                                  ![t].order_response = resp]
       ELSE /\ UNCHANGED executed_markets
            /\ thr' = [thr EXCEPT ![t].pc = "save", ![t].tries = 0,
                                  ![t].resp = resp,
                                  ![t].status = "failed"]
    /\ UNCHANGED <<prevent_duplicate_trades, exact_matching,
                   detection_history, proc_pc, result, text, idx>>
    /\ UNCHANGED pipeVars
    /\ UNCHANGED bootVars

(* the trade file of the success or failed branch is written *)
SaveTrade(t) ==
    /\ thr[t].pc = "save"
    /\ thr' = [thr EXCEPT ![t].pc = "done", ![t].saved = TRUE]
    /\ UNCHANGED <<prevent_duplicate_trades, exact_matching, executed_markets,
                   detection_history, proc_pc, result, text, idx>>
    /\ UNCHANGED pipeVars
    /\ UNCHANGED bootVars

(* writing the trade file raises inside the try block: the except clause
   sets the status to error and tries to write the error file *)
SaveTradeRaises(t, written) ==
    /\ thr[t].pc = "save"
    /\ thr' = [thr EXCEPT ![t].pc = "done", ![t].status = "error",
                          ![t].saved = written]
    /\ UNCHANGED <<prevent_duplicate_trades, exact_matching, executed_markets,
                   detection_history, proc_pc, result, text, idx>>
    /\ UNCHANGED pipeVars
    /\ UNCHANGED bootVars

Next ==
    \/ \E raw \in Results : Recognize(raw)
    \/ SkipMarket
    \/ NoMatch
    \/ Detect
    \/ DetectSaveRaises
    \/ \E t \in Threads : CheckExecuted(t)
    \/ \E t \in Threads : BeginCall(t)
    \/ \E t \in Threads : \E written \in BOOLEAN : CallRaises(t, written)
    \/ \E t \in Threads : \E resp \in {"ok", "empty"} : CallReturns(t, resp)
    \/ \E t \in Threads : SaveTrade(t)
    \/ \E t \in Threads : \E written \in BOOLEAN : SaveTradeRaises(t, written)

Spec == Init /\ [][Next]_vars

(* ---- the audio pipeline: read loop, queue, processing loop ---- *)
(* the size at which the read loop cuts a chunk *)
Threshold == IF kind = "radio" THEN BytesPerChunk ELSE ChunkSize

(* a queue without a capacity *)
QueueHasRoomMutant == TRUE

(* Queue.put blocks while the queue holds maxsize items *)
QueueHasRoom == Len(audio_queue) < QueueMax

(* radio, stream_audio: iter_content yields a piece of n bytes *)
RadioRead(n) ==
    /\ kind = "radio"
    /\ prod_pc = "read"
    /\ n_put < MaxChunks
    /\ bytes_fed' = bytes_fed + n
    /\ IF ~running
       THEN /\ prod_pc' = "ended"
            /\ UNCHANGED <<bytes_collected, audio_data, n_emitted>>
       ELSE /\ bytes_collected' = bytes_collected + n
            /\ IF bytes_collected + n >= BytesPerChunk
               THEN /\ audio_data' = bytes_collected + n
                    /\ n_emitted' = n_emitted + 1
                    /\ prod_pc' = "put"
               ELSE UNCHANGED <<audio_data, n_emitted, prod_pc>>
    /\ UNCHANGED <<kind, auto_restart, running, src, audio_queue, n_put,
                   cons_pc, n_got, last_handed>>
    /\ UNCHANGED tradeVars
    /\ UNCHANGED bootVars

(* radio, stream_audio: the response is not ok, the iterator is exhausted or
   raises; the function returns *)
RadioStreamEnds ==
    /\ kind = "radio"
    /\ prod_pc = "read"
    /\ prod_pc' = "ended"
    /\ UNCHANGED <<kind, auto_restart, running, src, bytes_collected, audio_data,
                   audio_queue, n_put, bytes_fed, n_emitted, cons_pc, n_got,
                   last_handed>>
    /\ UNCHANGED tradeVars
    /\ UNCHANGED bootVars

(* twitter, youtube: process.stdout.read(chunk_size) returns chunk_size bytes *)
PipeRead ==
    /\ kind = "twitter"
    /\ prod_pc = "read"
    /\ src = "open"
    /\ n_put < MaxChunks
    /\ audio_data' = ChunkSize
    /\ bytes_fed' = bytes_fed + ChunkSize
    /\ n_emitted' = n_emitted + 1
    /\ prod_pc' = "put"
    /\ UNCHANGED <<kind, auto_restart, running, src, bytes_collected,
                   audio_queue, n_put, cons_pc, n_got, last_handed>>
    /\ UNCHANGED tradeVars
    /\ UNCHANGED bootVars

(* twitter, youtube: the pipe ends inside the read, which returns the k bytes
   that were left *)
PipeReadTail(k) ==
    /\ kind = "twitter"
    /\ prod_pc = "read"
    /\ src = "open"
    /\ n_put < MaxChunks
    /\ audio_data' = k
    /\ bytes_fed' = bytes_fed + k
    /\ n_emitted' = n_emitted + 1
    /\ src' = "eof"
    /\ prod_pc' = "put"
    /\ UNCHANGED <<kind, auto_restart, running, bytes_collected, audio_queue,
                   n_put, cons_pc, n_got, last_handed>>
    /\ UNCHANGED tradeVars
    /\ UNCHANGED bootVars

(* twitter, youtube: the read returns no data; with app.auto_restart the
   process is terminated and get_audio_stream is called, which returns a new
   process or raises into the handler of start; without it the loop breaks *)
PipeReadEmpty(started) ==
    /\ kind = "twitter"
    /\ prod_pc = "read"
    /\ IF auto_restart
       THEN IF started
            THEN /\ src' = "open" /\ bytes_fed' = 0 /\ n_emitted' = 0
                 /\ UNCHANGED prod_pc
            ELSE /\ src' = "failed" /\ prod_pc' = "ended"
                 /\ UNCHANGED <<bytes_fed, n_emitted>>
       ELSE /\ src' = "eof" /\ prod_pc' = "ended"
            /\ UNCHANGED <<bytes_fed, n_emitted>>
    /\ UNCHANGED <<kind, auto_restart, running, bytes_collected, audio_data,
                   audio_queue, n_put, cons_pc, n_got, last_handed>>
    /\ UNCHANGED tradeVars
    /\ UNCHANGED bootVars

(* self.audio_queue.put(audio_data) *)
Put ==
    /\ prod_pc = "put"
    /\ QueueHasRoom
    /\ audio_queue' = Append(audio_queue, n_put + 1)
    /\ n_put' = n_put + 1
    /\ audio_data' = 0
    /\ bytes_collected' = 0
    /\ prod_pc' = "read"
    /\ UNCHANGED <<kind, auto_restart, running, src, bytes_fed, n_emitted,
                   cons_pc, n_got, last_handed>>
    /\ UNCHANGED tradeVars
    /\ UNCHANGED bootVars

(* radio: stop(), or Ctrl+C in the main loop of start, clears self.running;
   twitter, youtube: Ctrl+C raises KeyboardInterrupt in the read loop, which
   runs in the main thread, wherever it stands; the handler terminates the
   process *)
Stop ==
    /\ IF kind = "radio"
       THEN /\ running /\ running' = FALSE /\ UNCHANGED <<prod_pc, src>>
       ELSE /\ prod_pc # "ended" /\ prod_pc' = "ended" /\ src' = "terminated"
            /\ UNCHANGED running
    /\ UNCHANGED <<kind, auto_restart, bytes_collected, audio_data,
                   audio_queue, n_put, bytes_fed, n_emitted, cons_pc, n_got,
                   last_handed>>
    /\ UNCHANGED tradeVars
    /\ UNCHANGED bootVars

(* start has returned and main exits: the daemon threads end with the
   interpreter *)
ProcessExits ==
    /\ IF kind = "radio" THEN ~running ELSE prod_pc = "ended"
    /\ <<prod_pc, cons_pc>> # <<"ended", "exited">>
    /\ prod_pc' = "ended"
    /\ cons_pc' = "exited"
    /\ UNCHANGED <<kind, auto_restart, running, src, bytes_collected, audio_data,
                   audio_queue, n_put, bytes_fed, n_emitted, n_got, last_handed>>
    /\ UNCHANGED tradeVars
    /\ UNCHANGED bootVars

(* process_audio: the test of the while loop (while self.running in radio,
   while True in twitter and youtube) *)
ConsumerTop ==
    /\ cons_pc = "top"
    /\ cons_pc' = IF kind = "radio" /\ ~running THEN "exited" ELSE "get"
    /\ UNCHANGED <<kind, auto_restart, running, src, prod_pc, bytes_collected,
                   audio_data, audio_queue, n_put, bytes_fed, n_emitted, n_got,
                   last_handed>>
    /\ UNCHANGED tradeVars
    /\ UNCHANGED bootVars

(* a processing loop without the handler around the conversion: the
   exception of a failed conversion ends the thread *)
DequeueMutant(converted) ==
    /\ cons_pc = "get"
    /\ audio_queue # <<>>
    /\ audio_queue' = Tail(audio_queue)
    /\ n_got' = n_got + 1
    /\ last_handed' = IF kind = "radio" /\ ~converted THEN last_handed
                      ELSE Head(audio_queue)
    /\ cons_pc' = IF kind = "radio" /\ ~converted THEN "exited" ELSE "top"
    /\ UNCHANGED <<kind, auto_restart, running, src, prod_pc, bytes_collected,
                   audio_data, n_put, bytes_fed, n_emitted>>
    /\ UNCHANGED tradeVars
    /\ UNCHANGED bootVars

(* process_audio: get returns the head of the queue; twitter and youtube give
   it to AcceptWaveform; radio converts it with ffmpeg first and gives the
   converted data to AcceptWaveform, unless the conversion left no file and
   the open raises into the handler *)
Dequeue(converted) ==
    /\ cons_pc = "get"
    /\ audio_queue # <<>>
    /\ audio_queue' = Tail(audio_queue)
    /\ n_got' = n_got + 1
    /\ last_handed' = IF kind = "radio" /\ ~converted THEN last_handed
                      ELSE Head(audio_queue)
    /\ cons_pc' = "top"
    /\ UNCHANGED <<kind, auto_restart, running, src, prod_pc, bytes_collected,
                   audio_data, n_put, bytes_fed, n_emitted>>
    /\ UNCHANGED tradeVars
    /\ UNCHANGED bootVars

(* a get without a timeout: on an empty queue the processing thread stays
   in get *)
GetTimesOutMutant ==
    /\ cons_pc = "get"
    /\ audio_queue = <<>>
    /\ UNCHANGED vars

(* process_audio: get(timeout=5) raises queue.Empty *)
GetTimesOut ==
    /\ cons_pc = "get"
    /\ audio_queue = <<>>
    /\ cons_pc' = "top"
    /\ UNCHANGED <<kind, auto_restart, running, src, prod_pc, bytes_collected,
                   audio_data, audio_queue, n_put, bytes_fed, n_emitted, n_got,
                   last_handed>>
    /\ UNCHANGED tradeVars
    /\ UNCHANGED bootVars

(* a trader of either kind right after construction, threads started *)
InitPipe ==
    /\ prevent_duplicate_trades = TRUE
    /\ exact_matching = FALSE
    /\ executed_markets = {}
    /\ detection_history = <<>>
    /\ proc_pc = "get"
    /\ result = NoText
    /\ text = NoText
    /\ idx = 1
    /\ thr = [t \in Threads |-> NoThread]
    /\ kind \in {"radio", "twitter"}
    /\ auto_restart \in BOOLEAN
    /\ kind = "radio" => auto_restart
    /\ InitPipeline
    /\ InitStarted

NextPipe ==
    \/ \E n \in ReadSizes : RadioRead(n)
    \/ RadioStreamEnds
    \/ PipeRead
    \/ \E k \in TailSizes : PipeReadTail(k)
    \/ \E started \in BOOLEAN : PipeReadEmpty(started)
    \/ Put
    \/ Stop
    \/ ProcessExits
    \/ ConsumerTop
    \/ \E converted \in BOOLEAN : Dequeue(converted)
    \/ GetTimesOut

SpecPipe == InitPipe /\ [][NextPipe]_vars

(* the threads are scheduled: the processing thread, while it lives, gets
   to test its loop condition, get returns a chunk that is in the queue
   and gives up after its timeout on an empty queue, and put returns once
   the queue has room *)
SpecPipeFair ==
    /\ SpecPipe
    /\ WF_vars(ConsumerTop)
    /\ WF_vars(\E converted \in BOOLEAN : Dequeue(converted))
    /\ WF_vars(GetTimesOut)
    /\ WF_vars(Put)

(* ---- dispatch and shutdown ---- *)
(* the threads of the process run until the interpreter exits: place_trade
   threads are created without a daemon argument by the processing thread,
   which is a daemon thread, so they inherit daemon = True and nothing waits
   for them when main returns *)
ProcessAlive == cons_pc # "exited"

NextStop ==
    \/ ProcessAlive /\ Next
    \/ Stop
    \/ ProcessExits

SpecStop == Init /\ [][NextStop]_vars

(* ---- a burst of detections while the backend does not answer ---- *)
BurstThreads == 1..MaxBurst

(* the recognizer hears the same keyword phrase again and again *)
BurstResults == { <<"A", "b">> }

(* the trader right after construction, with room for MaxBurst threads *)
InitBurst ==
    /\ prevent_duplicate_trades = TRUE
    /\ exact_matching = FALSE
    /\ executed_markets = {}
    /\ detection_history = <<>>
    /\ proc_pc = "get"
    /\ result = NoText
    /\ text = NoText
    /\ idx = 1
    /\ thr = [t \in BurstThreads |-> NoThread]
    /\ kind = "radio"
    /\ auto_restart = TRUE
    /\ InitPipeline
    /\ InitStarted

BurstFree == {t \in BurstThreads : thr[t].pc = "none"}

(* one iteration of the loop: a keyword matched, the detection is recorded
   and saved, and one more thread is started on place_trade, whatever the
   number of threads already running *)
DetectBurst ==
    /\ proc_pc = "loop"
    /\ ~SkipsExecuted(Markets[idx])
    /\ Detected(Markets[idx], text)
    /\ BurstFree # {}
    /\ detection_history' = Append(detection_history, DetectionInfo(Markets[idx], text))
    /\ \E t \in BurstFree :
          /\ \A u \in BurstFree : t <= u
          /\ thr' = [thr EXCEPT ![t] =
                       [NoThread EXCEPT !.pc = "start",
                                        !.market_id = Markets[idx].market_id,
                                        !.detected_keyword = DetectedKeyword(Markets[idx], text),
                                        !.status = "pending"]]
    /\ Advance
    /\ UNCHANGED <<prevent_duplicate_trades, exact_matching, executed_markets>>
    /\ UNCHANGED pipeVars
    /\ UNCHANGED bootVars

(* the phrase matches every market and no call has returned, so no market
   is executed: every iteration of the loop is a detection *)
NextBurst ==
    \/ \E raw \in BurstResults : Recognize(raw)
    \/ DetectBurst
    \/ \E t \in BurstThreads : CheckExecuted(t)
    \/ \E t \in BurstThreads : BeginCall(t)

SpecBurst == InitBurst /\ [][NextBurst]_vars

(* ---- startup ---- *)
(* what loading config/markets.yaml can give: the mapping of the file; the
   empty mapping that _load_yaml returns when the file is missing, cannot
   be read or cannot be parsed; None, which safe_load returns for an empty
   file *)
MarketsYaml == {"loaded", "unreadable", "none"}

BootInputs ==
    [client : BOOLEAN, model : BOOLEAN, url : BOOLEAN, markets : MarketsYaml]

(* the process before main has built the trader *)
InitBoot ==
    /\ prevent_duplicate_trades \in BOOLEAN
    /\ exact_matching \in BOOLEAN
    /\ executed_markets = {}
    /\ detection_history = <<>>
    /\ proc_pc = "get"
    /\ result = NoText
    /\ text = NoText
    /\ idx = 1
    /\ thr = [t \in Threads |-> NoThread]
    /\ kind = "radio"
    /\ auto_restart = TRUE
    /\ InitPipeline
    /\ boot_pc = "new"
    /\ boot_in = BootOk
    /\ lost = [t \in Threads |-> 0]

(* the configuration is loaded when config_loader is imported, then main
   builds the trader: __init__ raises when the order client cannot be
   created, when the speech model cannot be loaded, when no URL is known
   and when the markets are not a mapping; main logs the exception and
   returns 1.  A markets.yaml that cannot be read or parsed has become the
   empty mapping and raises nothing *)
Construct(met) ==
    /\ boot_pc = "new"
    /\ boot_in' = met
    /\ boot_pc' = IF met.client /\ met.model /\ met.url /\ met.markets # "none"
                  THEN "ready" ELSE "fatal"
    /\ UNCHANGED lost
    /\ UNCHANGED tradeVars
    /\ UNCHANGED pipeVars

(* start creates and starts the streaming and processing threads *)
Start ==
    /\ boot_pc = "ready"
    /\ boot_pc' = "started"
    /\ UNCHANGED <<boot_in, lost>>
    /\ UNCHANGED tradeVars
    /\ UNCHANGED pipeVars

(* the started trader has markets to match; with the empty mapping the
   loop over the markets has no iteration and no utterance changes the
   state *)
TraderRuns == boot_pc = "started" /\ boot_in.markets = "loaded"

NextBoot ==
    \/ \E met \in BootInputs : Construct(met)
    \/ Start
    \/ TraderRuns /\ Next

SpecBoot == InitBoot /\ [][NextBoot]_vars

(* ---- retries against a backend that loses responses ---- *)
(* the try raised after post_order had reached the backend and the backend
   had taken the order: for backoff and place_trade this is the exception
   of CallRaises *)
CallLost(t, written) ==
    /\ thr[t].pc = "calling"
    /\ lost' = [lost EXCEPT ![t] = @ + 1]
    /\ IF GiveUp(t)
       THEN thr' = [thr EXCEPT ![t].pc = "done", ![t].tries = 0,
                               ![t].status = "error", ![t].saved = written]
       ELSE /\ written = FALSE
            /\ thr' = [thr EXCEPT ![t].pc = "submit"]
    /\ UNCHANGED <<prevent_duplicate_trades, exact_matching, executed_markets,
                   detection_history, proc_pc, result, text, idx>>
    /\ UNCHANGED pipeVars
    /\ UNCHANGED <<boot_pc, boot_in>>

(* the started trader with the duplicate check on *)
InitRetry ==
    /\ Init
    /\ prevent_duplicate_trades = TRUE
    /\ exact_matching = FALSE

NextRetry ==
    \/ Next
    \/ \E t \in Threads : \E written \in BOOLEAN : CallLost(t, written)

SpecRetry == InitRetry /\ [][NextRetry]_vars


(* ---- vocabulary of the properties ---- *)
Live(t) == thr[t].pc \notin {"none", "done"}

(* the thread has called the backend *)
HasCalled(t) == thr[t].tries > 0 \/ thr[t].resp # "none"

(* the step starts a call of the backend by thread t *)
CallStarts(t) == thr[t].pc = "submit" /\ thr'[t].pc = "calling"

(* inside create_and_submit_order: trying, or waiting for the next try *)
InFlight(t) == thr[t].pc = "calling" \/ (thr[t].pc = "submit" /\ thr[t].tries > 0)

(* the step starts a place_trade thread for market id *)
NewDispatch(id) ==
    \E u \in Threads : thr[u].pc = "none" /\ thr'[u].pc # "none"
                       /\ thr'[u].market_id = id

(* the step appends a detection of market id to detection_history *)
NewDetection(id) ==
    /\ Len(detection_history') = Len(detection_history) + 1
    /\ detection_history'[Len(detection_history')].market_id = id

(* the step is an iteration of the loop over the markets *)
LoopStep == proc_pc = "loop" /\ <<proc_pc, idx>>' # <<proc_pc, idx>>

(* C1: with prevent_duplicate_trades on, of the place_trade executions for
   one market that overlap, only one calls the order backend *)
C1_OneCallerAmongConcurrent ==
    prevent_duplicate_trades =>
        \A t, u \in Threads :
            (t # u /\ Live(t) /\ Live(u) /\ thr[t].market_id = thr[u].market_id)
                => ~(HasCalled(t) /\ HasCalled(u))

(* C2: with prevent_duplicate_trades on, once a market is in
   executed_markets no thread starts an order submission for it any more,
   threads started before the market became executed included *)
C2_NoSubmitAfterExecuted ==
    [][\A t \in Threads :
          (prevent_duplicate_trades /\ thr[t].market_id \in executed_markets)
              => ~CallStarts(t)]_vars

(* C3: at most one order submission is in flight for a market at any time *)
C3_OneInFlightPerMarket ==
    \A id \in MarketIds :
        Cardinality({t \in Threads : thr[t].market_id = id /\ InFlight(t)}) <= 1

(* C4 as stated: with prevent_duplicate_trades on, once a dispatch for a
   market has ended, whatever its outcome, no later utterance yields a new
   detection or a new dispatch for that market *)
C4_NoRefireAfterAnyOutcome ==
    [][\A t \in Threads :
          (prevent_duplicate_trades /\ thr[t].pc = "done")
              => /\ ~NewDetection(thr[t].market_id)
                 /\ ~NewDispatch(thr[t].market_id)]_vars

(* C4 amended: with prevent_duplicate_trades on, once a dispatch for a
   market has ended in success or skipped, no later utterance yields a new
   detection or a new dispatch for that market *)
C4_NoRefireAfterSuccess ==
    [][\A t \in Threads :
          (prevent_duplicate_trades /\ thr[t].pc = "done"
           /\ thr[t].status \in {"success", "skipped"})
              => /\ ~NewDetection(thr[t].market_id)
                 /\ ~NewDispatch(thr[t].market_id)]_vars

(* a dispatch has ended in success and the loop stands at its market with
   an utterance that matches it *)
C4_Witness ==
    /\ prevent_duplicate_trades
    /\ proc_pc = "loop"
    /\ Detected(Markets[idx], text)
    /\ Len(detection_history) < MaxDetections
    /\ FreeThreads # {}
    /\ \E t \in Threads : /\ thr[t].pc = "done"
                          /\ thr[t].status = "success"
                          /\ thr[t].market_id = Markets[idx].market_id

(* C5: with prevent_duplicate_trades on, a place_trade that runs its check
   when the market is already executed ends skipped with reason
   already_executed, calls no backend and leaves executed_markets alone *)
C5_SkipWhenExecuted ==
    [][\A t \in Threads :
          (/\ prevent_duplicate_trades
           /\ thr[t].pc = "start"
           /\ thr[t].market_id \in executed_markets
           /\ thr'[t] # thr[t])
              => /\ thr'[t].pc = "done"
                 /\ thr'[t].status = "skipped"
                 /\ thr'[t].reason = "already_executed"
                 /\ ~HasCalled(t)'
                 /\ \A u \in Threads : ~CallStarts(u)
                 /\ executed_markets' = executed_markets]_vars

(* a dispatch was skipped because its market was already executed *)
C5_Witness ==
    \E t \in Threads : /\ thr[t].status = "skipped"
                       /\ thr[t].market_id \in executed_markets

(* C6: a dispatch calls the backend at most max_tries times, a call is
   started only as the first one or after the previous one raised, and the
   status becomes error only when the call that raises is number max_tries *)
C6_ErrorOnlyAfterCap ==
    [][\A t \in Threads :
          /\ thr'[t].tries <= MaxTries
          /\ CallStarts(t) => thr[t].resp = "none"
          /\ (thr[t].status # "error" /\ thr'[t].status = "error")
                => (thr[t].pc = "calling" /\ thr[t].tries = MaxTries)]_vars

(* C7: a dispatch to which the backend returned a truthy response ends in
   success, with the response recorded and its market in executed_markets *)
C7_TruthyEndsSuccess ==
    \A t \in Threads :
        (thr[t].pc = "done" /\ thr[t].resp = "ok")
            => /\ thr[t].status = "success"
               /\ thr[t].order_response = "ok"
               /\ thr[t].market_id \in executed_markets

(* C8: a dispatch to which the backend returned a falsy response makes no
   further call and ends in failed *)
C8_FalsyEndsFailed ==
    \A t \in Threads :
        thr[t].resp = "empty"
            => /\ thr[t].pc \in {"save", "done"}
               /\ thr[t].pc = "done" => thr[t].status = "failed"

(* C9: with prevent_duplicate_trades off, an utterance that matches a
   market whose earlier dispatch has ended yields a new detection and a new
   dispatch for it, and a dispatch is never skipped but goes on to submit *)
C9_RefireWithoutDedup ==
    [][~prevent_duplicate_trades =>
          /\ \A t \in Threads :
                (/\ thr[t].pc = "done"
                 /\ LoopStep
                 /\ Markets[idx].market_id = thr[t].market_id
                 /\ Detected(Markets[idx], text))
                    => /\ NewDetection(thr[t].market_id)
                       /\ NewDispatch(thr[t].market_id)
          /\ \A t \in Threads :
                (thr[t].pc = "start" /\ thr'[t] # thr[t])
                    => thr'[t].pc = "submit" /\ thr'[t].status # "skipped"]_vars

(* C10: an iteration of the loop for a market whose effective mode is exact
   records a detection if and only if the utterance equals one of the
   market's keywords, and the keyword it records is the utterance *)
C10_ExactMatch ==
    [][(/\ LoopStep
        /\ (exact_matching \/ Markets[idx].trigger_type = "exact")
        /\ ~(prevent_duplicate_trades /\ Markets[idx].market_id \in executed_markets))
          => LET m == Markets[idx]
                 recorded == Len(detection_history') = Len(detection_history) + 1
                 last == detection_history'[Len(detection_history')]
             IN  /\ recorded <=> (\E k \in 1..Len(m.keywords) : m.keywords[k] = text)
                 /\ recorded => /\ last.market_id = m.market_id
                                /\ last.detected_keyword = text
                                /\ last.full_text = text]_vars

(* an exact-mode market was detected on an utterance equal to its keyword,
   and the loop stands at an exact-mode market with an utterance that only
   contains the keyword *)
C10_Witness ==
    /\ ~exact_matching
    /\ \E i \in 1..Len(detection_history) :
          /\ detection_history[i].market_id = "m2"
          /\ detection_history[i].detected_keyword = <<"a", "b">>
    /\ proc_pc = "loop"
    /\ Markets[idx].trigger_type = "exact"
    /\ text = <<"a", "b", " ", "b">>

(* kw occurs in txt as a run of consecutive characters *)
IsSubstring(kw, txt) ==
    \E i \in 1..(Len(txt) + 1) : \E j \in 0..Len(txt) : SubSeq(txt, i, j) = kw

(* the detection the step appended to detection_history *)
Recorded == detection_history'[Len(detection_history')]

(* the step evaluates the trigger of the market at idx (not skipped as
   executed) *)
Evaluates == LoopStep /\ ~SkipsExecuted(Markets[idx])

(* C11: a trigger evaluated in contains mode ('any') is detected exactly when
   at least one of its keywords is a substring of the text, and the keyword
   recorded is the first one, in configured order, that the text contains,
   also when a later keyword is contained as well *)
C11_FirstContainedKeyword ==
    [][(Evaluates /\ ~exact_matching /\ Markets[idx].trigger_type = "any")
          => LET kws == Markets[idx].keywords
                 hits == {k \in 1..Len(kws) : IsSubstring(kws[k], text)}
             IN /\ NewDetection(Markets[idx].market_id) <=> hits # {}
                /\ hits = {} => detection_history' = detection_history
                /\ hits # {} =>
                      /\ Recorded.full_text = text
                      /\ \E k \in hits :
                            /\ Recorded.detected_keyword = kws[k]
                            /\ \A j \in hits : k <= j]_vars

(* a contains-mode detection whose text holds two of the keywords, recorded
   with the one configured first *)
C11_Witness ==
    /\ ~exact_matching
    /\ \E i \in 1..Len(detection_history) :
          /\ detection_history[i].market_id = "m1"
          /\ detection_history[i].full_text = <<"a", "b", " ", "b">>
          /\ IsSubstring(<<"a", "b">>, detection_history[i].full_text)
          /\ detection_history[i].detected_keyword = <<"a">>

(* s without its leading and trailing blanks *)
Strip(s) ==
    LET inked == {i \in 1..Len(s) : s[i] # " "}
    IN IF inked = {} THEN <<>>
       ELSE SubSeq(s, CHOOSE i \in inked : \A j \in inked : i <= j,
                      CHOOSE i \in inked : \A j \in inked : j <= i)

(* the text a result stands for: lowercased and stripped *)
Normalized(raw) == Strip(Lower(raw))

(* trigger m matches the text t, in the mode m is evaluated in *)
MatchesOn(m, t) ==
    IF EffectiveType(m) = "exact"
    THEN \E k \in 1..Len(m.keywords) : m.keywords[k] = t
    ELSE \E k \in 1..Len(m.keywords) : IsSubstring(m.keywords[k], t)

(* C12: matching is case-insensitive and trimmed: a trigger that is evaluated
   is detected exactly when it matches the recognizer's result lowercased and
   stripped of leading and trailing whitespace *)
C12_MatchesNormalizedResult ==
    [][Evaluates => (NewDetection(Markets[idx].market_id)
                        <=> MatchesOn(Markets[idx], Normalized(result)))]_vars

(* C13: with speech.exact_matching on, a trigger configured in contains mode
   is evaluated in exact mode: it is detected only when the text equals one
   of its keywords, never on a text that merely contains one, and the
   recorded keyword is the text *)
C13_GlobalExactOverridesContains ==
    [][(Evaluates /\ exact_matching /\ Markets[idx].trigger_type = "any")
          => LET kws == Markets[idx].keywords
                 equal == \E k \in 1..Len(kws) : kws[k] = text
             IN /\ NewDetection(Markets[idx].market_id) <=> equal
                /\ ~equal => detection_history' = detection_history /\ thr' = thr
                /\ equal => Recorded.detected_keyword = text]_vars

(* with the global flag on, the loop stands at a contains-mode trigger with a
   text that contains a keyword without being one, after that trigger was
   detected on a text equal to a keyword *)
C13_Witness ==
    /\ exact_matching
    /\ proc_pc = "loop"
    /\ Markets[idx].trigger_type = "any"
    /\ ~SkipsExecuted(Markets[idx])
    /\ \E k \in 1..Len(Markets[idx].keywords) :
          /\ IsSubstring(Markets[idx].keywords[k], text)
          /\ Markets[idx].keywords[k] # text
    /\ \A k \in 1..Len(Markets[idx].keywords) : Markets[idx].keywords[k] # text
    /\ \E i \in 1..Len(detection_history) :
          /\ detection_history[i].market_id = Markets[idx].market_id
          /\ detection_history[i].detected_keyword = detection_history[i].full_text
    /\ Len(detection_history) < MaxDetections
    /\ FreeThreads # {}

(* the threads the step starts *)
Started == {u \in Threads : thr[u].pc = "none" /\ thr'[u].pc # "none"}

(* C14: the loop visits every trigger once per utterance, in order; each
   trigger it evaluates and that matches the text gets one detection and one
   dispatch, and no iteration records more than one detection or starts more
   than one dispatch *)
C14_OneDetectionAndDispatchPerMatch ==
    [][LoopStep =>
          /\ (proc_pc' = "loop" => idx' = idx + 1 /\ text' = text)
          /\ (proc_pc' = "get" => idx = NumMarkets)
          /\ Len(detection_history') <= Len(detection_history) + 1
          /\ Cardinality(Started) <= 1
          /\ (Evaluates /\ MatchesOn(Markets[idx], text))
                => /\ NewDetection(Markets[idx].market_id)
                   /\ NewDispatch(Markets[idx].market_id)]_vars

(* C15: with prevent_duplicate_trades on, a market that is in
   executed_markets gets no new detection and no new dispatch: the iteration
   of the loop at such a market leaves detection_history and the threads as
   they are *)
C15_ExecutedMarketIsSkipped ==
    [][prevent_duplicate_trades =>
          \A i \in 1..NumMarkets :
             Markets[i].market_id \in executed_markets
                => /\ ~NewDetection(Markets[i].market_id)
                   /\ ~NewDispatch(Markets[i].market_id)
                   /\ (LoopStep /\ idx = i)
                         => detection_history' = detection_history /\ thr' = thr]_vars

(* dedup is on and the loop stands at an executed market with a text that
   matches its trigger, while a detection and a thread could still be made *)
C15_Witness ==
    /\ prevent_duplicate_trades
    /\ proc_pc = "loop"
    /\ Markets[idx].market_id \in executed_markets
    /\ MatchesOn(Markets[idx], text)
    /\ Len(detection_history) < MaxDetections
    /\ FreeThreads # {}

(* C16: a result that is empty or holds only whitespace is no utterance: the
   loop over the markets is never entered with it and no detection carries
   such a text *)
C16_BlankResultIsNoUtterance ==
    /\ proc_pc = "loop" => Strip(result) # <<>>
    /\ \A i \in 1..Len(detection_history) :
          Strip(detection_history[i].full_text) # <<>>

(* C17: while the stream is open and the read loop runs, the number of chunks
   cut from the stream is the number of whole thresholds in the bytes read
   from it, however the source split them into reads: N x threshold bytes
   give N chunks, and the bytes beyond a multiple wait in the buffer *)
C17_ChunksFollowByteCount ==
    (prod_pc # "ended" /\ src = "open") => n_emitted = bytes_fed \div Threshold

(* C18: no byte is dropped: when the read loop has ended, at the end of the
   stream or on a stop, it holds no bytes that were read and not enqueued *)
C18_RemainderIsFlushed ==
    prod_pc = "ended" => bytes_collected = 0 /\ audio_data = 0

(* C19: the queue never holds more than 10 chunks; it changes only by the
   read loop appending the chunk it holds while there is room, or by the
   processing loop taking the head; a read loop that holds a chunk at a full
   queue keeps it and waits *)
C19_BoundedBlockingQueue ==
    [][/\ Len(audio_queue) <= QueueMax
       /\ Len(audio_queue') <= QueueMax
       /\ audio_queue' # audio_queue
             => \/ /\ Len(audio_queue) < QueueMax
                   /\ prod_pc = "put"
                   /\ audio_queue' = Append(audio_queue, n_put + 1)
                \/ /\ audio_queue # <<>>
                   /\ audio_queue' = Tail(audio_queue)
       /\ (prod_pc = "put" /\ Len(audio_queue) = QueueMax /\ prod_pc' # "ended")
             => /\ prod_pc' = "put"
                /\ audio_data' = audio_data
                /\ n_put' = n_put]_vars

(* the read loop holds a chunk at a queue of 10 chunks, of which the
   processing loop has already taken some *)
C19_Witness ==
    /\ Len(audio_queue) = QueueMax
    /\ prod_pc = "put"
    /\ audio_data > 0
    /\ n_got > 0

(* C20: the queue holds the chunks enqueued and not yet taken, in the order
   of their enqueueing, and every chunk taken from it is given to the
   recognizer, so the recognizer gets chunks 1, 2, 3, ... without gap,
   repetition or swap *)
C20_EveryChunkOnceInOrder ==
    /\ audio_queue = [i \in 1..(n_put - n_got) |-> n_got + i]
    /\ last_handed = n_got

(* the step is a read of the ffmpeg pipe that returns no data *)
ZeroRead ==
    /\ kind = "twitter"
    /\ prod_pc = "read"
    /\ audio_data' = audio_data
    /\ src' # "terminated"
    /\ <<src, prod_pc, bytes_fed, n_emitted>>' # <<src, prod_pc, bytes_fed, n_emitted>>

(* C21: twitter, youtube: a read that returns no data with auto-restart on
   is followed by a new source and a read loop that goes on reading, and it
   leaves the queue and the counts of chunks as they are *)
C21_RestartKeepsQueue ==
    [][(ZeroRead /\ auto_restart)
          => /\ src' = "open"
             /\ prod_pc' = "read"
             /\ audio_queue' = audio_queue
             /\ n_put' = n_put
             /\ n_got' = n_got]_vars

(* C22: radio: with auto-restart on, a trader that is running has a read
   loop: the end of the HTTP stream does not leave it without a producer *)
C22_RadioReacquiresSource ==
    (kind = "radio" /\ auto_restart /\ running) => prod_pc # "ended"

(* C23: twitter, youtube: with auto-restart off, a read that returns no data
   ends the read loop with no new source, and the processing loop is not
   ended before the chunks in the queue were taken for transcription *)
C23_CleanEndWithoutRestart ==
    [][(kind = "twitter" /\ ~auto_restart)
          => /\ ZeroRead => (prod_pc' = "ended" /\ src' = "eof")
             /\ (src = "eof" /\ cons_pc # "exited" /\ cons_pc' = "exited")
                   => audio_queue = <<>>]_vars

(* C24: radio: once stop has cleared self.running and returned, neither the
   read loop nor the processing loop is still running *)
C24_NothingRunsAfterStop ==
    (kind = "radio" /\ ~running) => (prod_pc = "ended" /\ cons_pc = "exited")

(* C25: radio: the processing loop does not exit while chunks are in the
   queue: what was enqueued before the stop is taken and transcribed first *)
C25_QueueDrainedBeforeExit ==
    (kind = "radio" /\ cons_pc = "exited") => (audio_queue = <<>> /\ n_got = n_put)

(* C26: a dispatch that is pending when the trader is stopped is not aborted:
   once the process has ended, no dispatch is left with the status pending *)
C26_PendingDispatchCompletes ==
    cons_pc = "exited" => \A t \in Threads : thr[t].status # "pending"

(* C27: the submission of an order never blocks the transcription: the step
   that starts a dispatch is an iteration of the loop over the markets that
   moves on to the next market or utterance, and it leaves the new thread
   at the head of place_trade, before any call of the backend; no step of a
   place_trade thread touches the position of the processing loop *)
C27_DispatchDoesNotBlock ==
    [][/\ \A u \in Started : /\ thr'[u].pc = "start"
                             /\ thr'[u].tries = 0
                             /\ thr'[u].resp = "none"
                             /\ LoopStep
                             /\ (proc_pc' = "get" \/ idx' = idx + 1)
       /\ (\E t \in Threads : Live(t) /\ thr'[t] # thr[t])
             => <<proc_pc, idx, text, result>>' = <<proc_pc, idx, text, result>>]_vars

(* a call of the backend is under way while the loop is matching a later
   utterance *)
C27_Witness ==
    /\ detection_history # <<>>
    /\ proc_pc = "loop"
    /\ text # detection_history[Len(detection_history)].full_text
    /\ \E t \in Threads : thr[t].pc = "calling"

(* C28: the dispatches run on a pool of at most 8 workers: no more than 8
   place_trade threads are alive at any time *)
C28_BoundedDispatchWorkers ==
    Cardinality({t \in DOMAIN thr : Live(t)}) <= 8

(* C29: an exception raised while a chunk is processed is caught and the
   processing loop goes on with the next chunk: every chunk taken from the
   queue, converted or not, brings the loop back to its head, and the loop
   ends only once the trader is stopped or the read loop has ended *)
C29_ExceptionDoesNotEndConsumer ==
    [][/\ (cons_pc = "get" /\ n_got' = n_got + 1) => cons_pc' = "top"
       /\ (cons_pc # "exited" /\ cons_pc' = "exited")
             => IF kind = "radio" THEN ~running ELSE prod_pc = "ended"]_vars

(* the conversion of the second chunk failed, and the loop of the running
   trader is waiting for the next chunk *)
C29_Witness ==
    /\ kind = "radio" /\ running
    /\ n_got = 2 /\ last_handed = 1
    /\ cons_pc = "get"

(* C30: every dispatch leaves an audit record whatever its outcome: a
   place_trade that has ended with the status skipped, success or failed
   has written its trade file (the record of an error outcome is left out
   here: it is missing only when the write of the error file fails too) *)
C30_EveryOutcomeIsRecorded ==
    \A t \in Threads :
        (thr[t].pc = "done" /\ thr[t].status # "error") => thr[t].saved

(* the status of a dispatch is an outcome *)
Finalized(st) == st \in {"success", "skipped", "failed", "error"}

(* C31: the status of a dispatch goes from pending to one outcome and is
   never changed once it is an outcome: no step rewrites success, skipped,
   failed or error *)
C31_OutcomeIsFinal ==
    [][\A t \in Threads :
          /\ Finalized(thr[t].status) => thr'[t].status = thr[t].status
          /\ thr'[t].status # thr[t].status
                => (thr[t].status \in {"none", "pending"}
                    /\ (thr[t].status = "none" => thr'[t].status = "pending"))]_vars

(* C32: a failure of the startup is fatal: the threads of the trader are
   started only when the order client was created, the speech model was
   loaded, the source URL is known and the markets were read *)
C32_FailedStartupStartsNothing ==
    boot_pc = "started" => boot_in = BootOk

(* C33: a failure to acquire the source again is not fatal: with
   app.auto_restart the read loop of twitter and youtube ends only when
   the trader is stopped *)
C33_FailedReacquireIsRetried ==
    (kind = "twitter" /\ auto_restart /\ prod_pc = "ended") => src = "terminated"

(* the orders of dispatch t that the backend has taken: those whose
   response was lost and the one whose response came back truthy *)
Orders(t) == lost[t] + (IF Truthy(thr[t].resp) THEN 1 ELSE 0)

(* C34: retrying never doubles the financial effect: the backend takes at
   most one order for one dispatch *)
C34_OneOrderPerDispatch ==
    \A t \in Threads : Orders(t) <= 1

(* C35: every dispatch, and with it every submission of an order, comes
   after a detection of its market was appended to detection_history, and
   the record is still there, with the keyword the dispatch was started
   with, whatever the dispatch has come to *)
C35_DetectionPrecedesSubmission ==
    \A t \in Threads :
        thr[t].pc # "none"
           => \E i \in 1..Len(detection_history) :
                 /\ detection_history[i].market_id = thr[t].market_id
                 /\ detection_history[i].detected_keyword = thr[t].detected_keyword

(* two dispatches have ended, one skipped and one in error after its call
   of the backend, and both detections are in the history *)
C35_Witness ==
    /\ \E t \in Threads : thr[t].pc = "done" /\ thr[t].status = "skipped"
    /\ \E t \in Threads : thr[t].pc = "done" /\ thr[t].status = "error"
    /\ Len(detection_history) = 2

(* C36: the processing thread never waits for ever on an empty queue: a
   wait in get on an empty queue ends, and in radio, once self.running is
   cleared, the processing loop exits *)
C36_BoundedWaitSeesStop ==
    /\ (cons_pc = "get" /\ audio_queue = <<>>) ~> (cons_pc # "get")
    /\ (kind = "radio" /\ ~running) ~> (cons_pc = "exited")

(* the stop came while the processing thread was waiting on the empty
   queue *)
C36_Witness ==
    /\ kind = "radio" /\ ~running
    /\ cons_pc = "get" /\ audio_queue = <<>>
    /\ prod_pc # "ended"

(* C37: a market is in executed_markets only when a submission for it
   returned a truthy response, and a dispatch that has ended failed, in
   error or skipped has not added its market *)
C37_ExecutedOnlyOnTruthyResponse ==
    /\ \A id \in executed_markets :
          \E t \in Threads : thr[t].market_id = id /\ Truthy(thr[t].resp)
    /\ \A t \in Threads :
          (thr[t].pc = "done" /\ thr[t].status \in {"failed", "error", "skipped"})
             => ~Truthy(thr[t].resp)

(* the detections of market id in detection_history *)
DetectionsOf(id) ==
    {i \in 1..Len(detection_history) : detection_history[i].market_id = id}

(* the place_trade threads started for market id *)
DispatchesOf(id) ==
    {t \in Threads : thr[t].pc # "none" /\ thr[t].market_id = id}

(* C38: every detection in detection_history is followed by a dispatch
   for its market: the iteration that appends the detection starts the
   thread, so between two iterations every market has as many dispatches
   as detections *)
C38_EveryDetectionIsDispatched ==
    \A id \in MarketIds :
        Cardinality(DispatchesOf(id)) >= Cardinality(DetectionsOf(id))

(* the markets of the file that are disabled *)
DisabledIds ==
    {ConfigMarkets[i].market_id : i \in {j \in 1..Len(ConfigMarkets) : ConfigMarkets[j].disabled}}

(* a disabled market of the file would be detected in the text *)
DisabledWouldMatch(txt) ==
    \E i \in 1..Len(ConfigMarkets) :
        ConfigMarkets[i].disabled /\ Detected(ConfigMarkets[i], txt)

(* C39: a market that is disabled in the configuration is not among the
   markets the trader loads: no detection is recorded and no dispatch is
   started for it *)
C39_DisabledMarketNeverFires ==
    /\ \A i \in 1..NumMarkets : Markets[i].market_id \notin DisabledIds
    /\ \A i \in 1..Len(detection_history) :
          detection_history[i].market_id \notin DisabledIds
    /\ \A t \in Threads : thr[t].market_id \notin DisabledIds

(* the loop over the markets has ended for an utterance in which the
   disabled market would have been detected *)
C39_Witness ==
    /\ proc_pc = "get"
    /\ \E i \in 1..Len(detection_history) :
          DisabledWouldMatch(detection_history[i].full_text)

(* the run is ending: radio has cleared self.running; in twitter and
   youtube the read loop has ended and start returns *)
Ending == IF kind = "radio" THEN ~running ELSE prod_pc = "ended"

(* C40: while the trader is not stopped, the read loop and the processing
   loop do not deadlock on the queue.  Every chunk in the queue is taken
   out of it: the queue is first in first out, so this is to say that
   chunks are dequeued again and again or the queue is empty again and
   again.  And a put that waits on the full queue returns *)
C40_NoDeadlockOnQueue ==
    /\ \/ []<>(audio_queue = <<>> \/ Ending)
       \/ []<><<n_got' = n_got + 1>>_vars
    /\ (prod_pc = "put" /\ Len(audio_queue) = QueueMax) ~> (prod_pc # "put" \/ Ending)

(* put waits on the full queue of a running trader *)
C40_Witness ==
    /\ prod_pc = "put" /\ Len(audio_queue) = QueueMax
    /\ ~Ending
    /\ cons_pc = "get"
====
